---- MODULE Spec2Model ----
(***************************************************************************)
(* PicoTrafficRTOS: the traffic-light controller of src/PicoFreeRTOS.c.    *)
(*                                                                         *)
(* Five FreeRTOS tasks share four volatile globals without any lock.  The  *)
(* model has one action per access to a shared global (or per driver call  *)
(* between two such accesses), a program counter per task, and the         *)
(* fixed-priority preemptive scheduling that main() sets up: a task takes  *)
(* a step only while every task of higher priority is blocked in           *)
(* vTaskDelay; the tick interrupt may end any delay at any moment.         *)
(***************************************************************************)
EXTENDS Integers, FiniteSets, Sequences, TLC

(* ---------------- program constants (src/PicoFreeRTOS.c) --------------- *)
SEMAPHORE_GREEN_DURATION_SEC == 9
SEMAPHORE_RED_DURATION_SEC == 6
SEMAPHORE_YELLOW_DURATION_SEC == 3
SEMAPHORE_DURATION_TIMEOUT == 0

SEMAPHORE_GREEN_STATE == 1
SEMAPHORE_RED_STATE == 2
SEMAPHORE_YELLOW_STATE == 0

SEMAPHORE_LED_COLOR_RED == 0
SEMAPHORE_LED_COLOR_GREEN == 1
SEMAPHORE_LED_COLOR_YELLOW == 3

SEMAPHORE_DAILY_MODE == 0
SEMAPHORE_NIGHT_MODE == 1

(* ---------------- program constants (src/lib/rgb.h) -------------------- *)
RGB_COLOR_RED == 0
RGB_COLOR_GREEN == 1
RGB_COLOR_YELLOW == 3

(* The colour ws2812b_draw receives in Night mode; lib/ws2812b.h is not    *)
(* part of the sources, the value is the yellow of the colour codes above. *)
WS2812B_COLOR_YELLOW == SEMAPHORE_LED_COLOR_YELLOW

(* Largest raw level and largest colour code a client of the lamp driver
   passes in the driver's own specification (not program constants). *)
MaxLevel == 7
MaxColorCode == 4

(* Largest intensity and largest pin index passed to rgb_turn_on_by_gpio in
   the driver's own specification (not program constants). *)
MaxIntensity == 100
MaxPin == 1

(* uint16_t MAX_LED_INTENSITY = 0xFFFF, rgb.c line 20 *)
MAX_LED_INTENSITY == 65535

(* uint16_t arithmetic of g_semaphore_counter *)
UINT16_MOD == 65536

(* Saturation of the observer's decrement count (not a program constant). *)
MaxTicks == 12

(* ---------------- tasks and their priorities (main) -------------------- *)
Tasks == {"blink", "led", "buzzer", "display", "button"}

Presenters == {"led", "buzzer", "display"}

Priority(t) ==
    CASE t = "blink"   -> 4
      [] t = "led"     -> 3
      [] t = "buzzer"  -> 2
      [] t = "display" -> 1
      [] t = "button"  -> 0

VARIABLES
    g_semaphore_counter,    \* volatile uint16_t, line 78
    g_sempahore_state,      \* volatile uint8_t, line 79
    g_semaphore_led_color,  \* volatile uint8_t, line 80
    g_semaphore_mode,       \* volatile uint8_t, line 81
    pc,                     \* pc[t]: where task t stands in its loop
    current_state,          \* parameter of update_semaphore_counter
    glyph_index,            \* value of g_semaphore_counter-- (index into NUMERIC_GLYPHS)
    matrix,                 \* <<glyph, colour>> last drawn by ws2812b_draw
    button_a,               \* level of the BUTTON_A input (0 = pressed)
    lamp,                   \* <<R, G, B>> PWM levels of the RGB LED
    oled_line,              \* cue text in the display RAM buffer, line 40
    oled_shown,             \* cue text last sent to the panel by oledgfx_render
    tone,                   \* <<beep ms, wait ms>> of the last buzzer pattern
    held,                   \* observer: (mode, phase) pairs the record held while a presenter was reading
    verdict,                \* observer: what the last decision of each presenter was based on
    fresh,                  \* observer: no decrement since the last Night-to-Day reset
    timeout,                \* observer: progress of the current timeout
    ticks,                  \* observer: decrements since the counter was last loaded
    toggled                 \* observer: g_semaphore_mode has been written since boot

shared == <<g_semaphore_counter, g_sempahore_state, g_semaphore_led_color, g_semaphore_mode>>

blinkLocals == <<current_state, glyph_index, matrix>>

outputs == <<lamp, oled_line, oled_shown, tone>>

observers == <<held, verdict, fresh, timeout, ticks, toggled>>

vars == <<shared, pc, blinkLocals, button_a, outputs, observers>>

(* ---------------- the phase table of update_semaphore_counter ---------- *)
Phases == {SEMAPHORE_GREEN_STATE, SEMAPHORE_YELLOW_STATE, SEMAPHORE_RED_STATE}

\* Mutant of NextState: the Green case installs Red, skipping Yellow.
NextState_SkipYellow(s) ==
    CASE s = SEMAPHORE_GREEN_STATE  -> SEMAPHORE_RED_STATE
      [] s = SEMAPHORE_YELLOW_STATE -> SEMAPHORE_RED_STATE
      [] s = SEMAPHORE_RED_STATE    -> SEMAPHORE_GREEN_STATE

\* Mutant of NextState: the Red case installs Red again.
NextState_RedStays(s) ==
    CASE s = SEMAPHORE_GREEN_STATE  -> SEMAPHORE_YELLOW_STATE
      [] s = SEMAPHORE_YELLOW_STATE -> SEMAPHORE_RED_STATE
      [] s = SEMAPHORE_RED_STATE    -> SEMAPHORE_RED_STATE

\* The phase each case of the switch installs.
NextState(s) ==
    CASE s = SEMAPHORE_GREEN_STATE  -> SEMAPHORE_YELLOW_STATE
      [] s = SEMAPHORE_YELLOW_STATE -> SEMAPHORE_RED_STATE
      [] s = SEMAPHORE_RED_STATE    -> SEMAPHORE_GREEN_STATE

\* Mutant of NextCounter: the Yellow case installs the Yellow duration again
\* instead of the Red one.
NextCounter_RedTooShort(s) ==
    CASE s = SEMAPHORE_GREEN_STATE  -> SEMAPHORE_YELLOW_DURATION_SEC
      [] s = SEMAPHORE_YELLOW_STATE -> SEMAPHORE_YELLOW_DURATION_SEC
      [] s = SEMAPHORE_RED_STATE    -> SEMAPHORE_GREEN_DURATION_SEC

\* Mutant of NextCounter: the Yellow case installs a Red phase of length 0.
NextCounter_ZeroRed(s) ==
    CASE s = SEMAPHORE_GREEN_STATE  -> SEMAPHORE_YELLOW_DURATION_SEC
      [] s = SEMAPHORE_YELLOW_STATE -> SEMAPHORE_DURATION_TIMEOUT
      [] s = SEMAPHORE_RED_STATE    -> SEMAPHORE_GREEN_DURATION_SEC

\* The countdown value each case of the switch installs.
NextCounter(s) ==
    CASE s = SEMAPHORE_GREEN_STATE  -> SEMAPHORE_YELLOW_DURATION_SEC
      [] s = SEMAPHORE_YELLOW_STATE -> SEMAPHORE_RED_DURATION_SEC
      [] s = SEMAPHORE_RED_STATE    -> SEMAPHORE_GREEN_DURATION_SEC

\* The colour each case of the switch installs.
NextColor(s) ==
    CASE s = SEMAPHORE_GREEN_STATE  -> SEMAPHORE_LED_COLOR_YELLOW
      [] s = SEMAPHORE_YELLOW_STATE -> SEMAPHORE_LED_COLOR_RED
      [] s = SEMAPHORE_RED_STATE    -> SEMAPHORE_LED_COLOR_GREEN

\* Mutant of HasCase: the switch lacks the Red case.
HasCase_NoRed(s) == s \in {SEMAPHORE_GREEN_STATE, SEMAPHORE_YELLOW_STATE}

\* Whether the switch has a case for s (it has no default).
HasCase(s) == s \in Phases

(* ---------------- scheduling ------------------------------------------- *)
\* Task t is blocked in vTaskDelay.
Delayed(t) == pc[t] = "delay"

\* Fixed-priority preemptive scheduling: t runs only while every task of
\* higher priority is blocked.
Running(t) ==
    /\ ~Delayed(t)
    /\ \A u \in Tasks : Priority(u) > Priority(t) => Delayed(u)

\* Where each task continues when its delay ends.
AfterDelay(t) ==
    CASE t = "blink"   -> "call_update"
      [] t = "led"     -> "test_mode"
      [] t = "buzzer"  -> "test_mode"
      [] t = "display" -> "clear"
      [] t = "button"  -> "poll"

Goto(t, l) == pc' = [pc EXCEPT ![t] = l]

(* ---------------- observers -------------------------------------------- *)
\* A presenter is between its read of the mode and its decision.
Reading(t) == pc[t] \in {"test_green", "test_yellow", "test_red"}

\* The record takes the value (m, s): every presenter that is reading sees it.
HeldAfter(m, s) ==
    [t \in Presenters |-> IF Reading(t)
                          THEN held[t] \cup {<<m, s>>} ELSE held[t]]

Min(a, b) == IF a < b THEN a ELSE b


\* A decision that acted on (m, s) is consistent when the record held (m, s)
\* at some instant since the presenter read the mode.
Judge(t, m, s) == IF <<m, s>> \in held[t] THEN "consistent" ELSE "mixed"

\* A Night decision depends on the mode alone.
JudgeNight(t) ==
    IF \E h \in held[t] \cup {<<g_semaphore_mode, g_sempahore_state>>} :
           h[1] = SEMAPHORE_NIGHT_MODE
    THEN "consistent" ELSE "mixed"

(* ---------------- lamp driver (src/lib/rgb.c) -------------------------- *)
\* Mutant of RgbTurnOffWhite: the blue channel is not switched off.
RgbTurnOffWhite_KeepsBlue(levels) == <<0, 0, levels[3]>>

\* rgb_turn_off_white: the three channels at level 0.
RgbTurnOffWhite(levels) == <<0, 0, 0>>

\* rgb_turn_on_red / rgb_turn_on_green: the raw value goes to the channel.
RgbTurnOnRed(levels, intensity) == [levels EXCEPT ![1] = intensity]

RgbTurnOnGreen(levels, intensity) == [levels EXCEPT ![2] = intensity]

\* rgb_turn_on_blue: the raw value goes to the blue channel.
RgbTurnOnBlue(levels, intensity) == [levels EXCEPT ![3] = intensity]

\* Mutant of CalculateLedIntensityValue: the full scale is 0xFF00, as the
\* comment of line 19 says, instead of 0xFFFF.
CalculateLedIntensityValue_FF00(intensity) ==
    LET i == IF intensity = 0 THEN 1 ELSE intensity
    IN  ((65280 * i) \div 100) % UINT16_MOD

\* calculate_led_intensity_value: intensity 0 counts as 1; the product is
\* computed in int (32 bits on the target, at most 65535 * 255, so it cannot
\* overflow), divided as unsigned and cast to uint16_t.
CalculateLedIntensityValue(intensity) ==
    LET i == IF intensity = 0 THEN 1 ELSE intensity
    IN  ((MAX_LED_INTENSITY * i) \div 100) % UINT16_MOD

\* rgb_turn_on_by_gpio: the scaled value goes to the channel of the pin.
RgbTurnOnByGpio(levels, pin, intensity) ==
    [levels EXCEPT ![pin] = CalculateLedIntensityValue(intensity)]

\* turn_off_led_by_gpio: level 0 on the channel of the pin.
TurnOffLedByGpio(levels, pin) == [levels EXCEPT ![pin] = 0]

\* rgb_turn_on_by_color: all channels off, then the channels of the colour.
RgbTurnOnByColor(levels, color) ==
    LET off == RgbTurnOffWhite(levels) IN
    CASE color = RGB_COLOR_RED    -> RgbTurnOnRed(off, 5)
      [] color = RGB_COLOR_GREEN  -> RgbTurnOnGreen(off, 170)
      [] color = RGB_COLOR_YELLOW -> RgbTurnOnGreen(RgbTurnOnRed(off, 5), 255)
      [] OTHER                    -> off

(* ---------------- initial state ---------------------------------------- *)
Init ==
    /\ g_semaphore_counter = SEMAPHORE_GREEN_DURATION_SEC
    /\ g_sempahore_state = SEMAPHORE_GREEN_STATE
    /\ g_semaphore_led_color = SEMAPHORE_LED_COLOR_GREEN
    /\ g_semaphore_mode = SEMAPHORE_DAILY_MODE
    /\ pc = [t \in Tasks |->
               CASE t = "blink"   -> "test_mode"
                 [] t = "led"     -> "test_mode"
                 [] t = "buzzer"  -> "test_mode"
                 [] t = "display" -> "clear"
                 [] t = "button"  -> "poll"]
    /\ current_state = SEMAPHORE_GREEN_STATE
    /\ glyph_index = 0
    /\ matrix = <<-1, -1>>
    /\ button_a = 1
    /\ lamp = <<0, 0, 0>>
    /\ oled_line = ""
    /\ oled_shown = ""
    /\ tone = <<0, 0>>
    /\ held = [t \in Presenters |-> {}]
    /\ verdict = [t \in Presenters |-> "none"]
    /\ fresh = FALSE
    /\ toggled = FALSE
    /\ timeout = "running"
    /\ ticks = 0

(* ---------------- the tick interrupt ----------------------------------- *)
\* The delay of task t ends: the task is ready again.
Wake(t) ==
    /\ Delayed(t)
    /\ Goto(t, AfterDelay(t))
    /\ UNCHANGED <<shared, blinkLocals, button_a, outputs, observers>>

(* ---------------- vBlinkTask and update_semaphore_counter -------------- *)
\* line 244: if(g_semaphore_mode == SEMAPHORE_DAILY_MODE)
BlinkTestMode ==
    /\ Running("blink") /\ pc["blink"] = "test_mode"
    /\ Goto("blink", IF g_semaphore_mode = SEMAPHORE_DAILY_MODE
                     THEN "load_counter" ELSE "draw_night")
    /\ UNCHANGED <<shared, blinkLocals, button_a, outputs, observers>>

\* line 245: the read of g_semaphore_counter-- (the value is the glyph index)
BlinkLoadCounter ==
    /\ Running("blink") /\ pc["blink"] = "load_counter"
    /\ glyph_index' = g_semaphore_counter
    /\ Goto("blink", "store_counter")
    /\ UNCHANGED <<shared, current_state, matrix, button_a, outputs, observers>>

\* line 245: the write of g_semaphore_counter--, in uint16_t arithmetic
BlinkStoreCounter ==
    /\ Running("blink") /\ pc["blink"] = "store_counter"
    /\ g_semaphore_counter' = (glyph_index + UINT16_MOD - 1) % UINT16_MOD
    /\ fresh' = FALSE
    /\ timeout' = IF g_semaphore_counter' = SEMAPHORE_DURATION_TIMEOUT
                  THEN "expired" ELSE "running"
    /\ ticks' = Min(ticks + 1, MaxTicks)
    /\ Goto("blink", "draw_day")
    /\ UNCHANGED <<g_sempahore_state, g_semaphore_led_color, g_semaphore_mode,
                   blinkLocals, button_a, outputs, held, verdict, toggled>>

\* Mutant of BlinkDrawDay: the glyph is indexed by the counter after its
\* decrement ("--g_semaphore_counter" for "g_semaphore_counter--").
BlinkDrawDay_AfterDecrement ==
    /\ Running("blink") /\ pc["blink"] = "draw_day"
    /\ matrix' = <<g_semaphore_counter, g_semaphore_led_color>>
    /\ glyph_index' = 0
    /\ Goto("blink", "delay")
    /\ UNCHANGED <<shared, current_state, button_a, outputs, observers>>

\* line 245: ws2812b_draw(ws, NUMERIC_GLYPHS[...], g_semaphore_led_color, 1)
BlinkDrawDay ==
    /\ Running("blink") /\ pc["blink"] = "draw_day"
    /\ matrix' = <<glyph_index, g_semaphore_led_color>>
    /\ glyph_index' = 0
    /\ Goto("blink", "delay")
    /\ UNCHANGED <<shared, current_state, button_a, outputs, observers>>

\* line 247: ws2812b_draw(ws, NUMERIC_GLYPHS[0], WS2812B_COLOR_YELLOW, 1)
BlinkDrawNight ==
    /\ Running("blink") /\ pc["blink"] = "draw_night"
    /\ matrix' = <<0, WS2812B_COLOR_YELLOW>>
    /\ Goto("blink", "delay")
    /\ UNCHANGED <<shared, current_state, glyph_index, button_a, outputs, observers>>

\* line 251: update_semaphore_counter(g_sempahore_state), the argument is read
BlinkCallUpdate ==
    /\ Running("blink") /\ pc["blink"] = "call_update"
    /\ current_state' = g_sempahore_state
    /\ Goto("blink", "test_timeout")
    /\ UNCHANGED <<shared, glyph_index, matrix, button_a, outputs, observers>>

\* Mutant of UpdateTestTimeout: the test fires one second early, at 1.
UpdateTestTimeout_Early ==
    /\ Running("blink") /\ pc["blink"] = "test_timeout"
    /\ Goto("blink", IF /\ g_semaphore_counter <= 1
                        /\ HasCase(current_state)
                     THEN "set_counter" ELSE "test_mode")
    /\ UNCHANGED <<shared, blinkLocals, button_a, outputs, observers>>

\* lines 89-91: the timeout test and the switch (which has no default case)
UpdateTestTimeout ==
    /\ Running("blink") /\ pc["blink"] = "test_timeout"
    /\ Goto("blink", IF /\ g_semaphore_counter = SEMAPHORE_DURATION_TIMEOUT
                        /\ HasCase(current_state)
                     THEN "set_counter" ELSE "test_mode")
    /\ UNCHANGED <<shared, blinkLocals, button_a, outputs, observers>>

\* lines 95, 101, 107: g_semaphore_counter = duration of the next phase
UpdateSetCounter ==
    /\ Running("blink") /\ pc["blink"] = "set_counter"
    /\ g_semaphore_counter' = NextCounter(current_state)
    /\ timeout' = "advanced"
    /\ ticks' = 0
    /\ Goto("blink", "set_state")
    /\ UNCHANGED <<g_sempahore_state, g_semaphore_led_color, g_semaphore_mode,
                   blinkLocals, button_a, outputs, held, verdict, fresh, toggled>>

\* lines 96, 102, 108: g_sempahore_state = the next phase
UpdateSetState ==
    /\ Running("blink") /\ pc["blink"] = "set_state"
    /\ g_sempahore_state' = NextState(current_state)
    /\ held' = HeldAfter(g_semaphore_mode, g_sempahore_state')
    /\ Goto("blink", "set_color")
    /\ UNCHANGED <<g_semaphore_counter, g_semaphore_led_color, g_semaphore_mode,
                   blinkLocals, button_a, outputs, verdict, fresh, timeout, ticks, toggled>>

\* lines 97, 103, 109: g_semaphore_led_color = the colour of the next phase
UpdateSetColor ==
    /\ Running("blink") /\ pc["blink"] = "set_color"
    /\ g_semaphore_led_color' = NextColor(current_state)
    /\ Goto("blink", "test_mode")
    /\ UNCHANGED <<g_semaphore_counter, g_sempahore_state, g_semaphore_mode,
                   blinkLocals, button_a, outputs, observers>>

BlinkStep ==
    \/ BlinkTestMode \/ BlinkLoadCounter \/ BlinkStoreCounter
    \/ BlinkDrawDay \/ BlinkDrawNight \/ BlinkCallUpdate
    \/ UpdateTestTimeout \/ UpdateSetCounter \/ UpdateSetState \/ UpdateSetColor


(* ---------------- the BUTTON_A input ----------------------------------- *)
\* The user presses button A: the pulled-up input goes low.
PressA ==
    /\ button_a = 1
    /\ button_a' = 0
    /\ UNCHANGED <<shared, pc, blinkLocals, outputs, observers>>

\* The user releases button A.
ReleaseA ==
    /\ button_a = 0
    /\ button_a' = 1
    /\ UNCHANGED <<shared, pc, blinkLocals, outputs, observers>>

(* ---------------- vPushButtonTask -------------------------------------- *)
\* line 124: if(!gpio_get(BUTTON_A)), else straight to the delay of line 135
ButtonPoll ==
    /\ Running("button") /\ pc["button"] = "poll"
    /\ Goto("button", IF button_a = 0 THEN "test_mode" ELSE "delay")
    /\ UNCHANGED <<shared, blinkLocals, button_a, outputs, observers>>

\* Mutant of ButtonTestMode: the test of line 126 is inverted.
ButtonTestMode_Inverted ==
    /\ Running("button") /\ pc["button"] = "test_mode"
    /\ Goto("button", IF g_semaphore_mode # SEMAPHORE_NIGHT_MODE
                      THEN "reset_counter" ELSE "set_night")
    /\ UNCHANGED <<shared, blinkLocals, button_a, outputs, observers>>

\* line 126: if (g_semaphore_mode == SEMAPHORE_NIGHT_MODE)
ButtonTestMode ==
    /\ Running("button") /\ pc["button"] = "test_mode"
    /\ Goto("button", IF g_semaphore_mode = SEMAPHORE_NIGHT_MODE
                      THEN "reset_counter" ELSE "set_night")
    /\ UNCHANGED <<shared, blinkLocals, button_a, outputs, observers>>

\* Mutant of ButtonResetCounter: the reset installs Day together with the
\* counter, before the colour and the phase.
ButtonResetCounter_DayFirst ==
    /\ Running("button") /\ pc["button"] = "reset_counter"
    /\ g_semaphore_counter' = SEMAPHORE_GREEN_DURATION_SEC
    /\ g_semaphore_mode' = SEMAPHORE_DAILY_MODE
    /\ timeout' = IF timeout = "expired" THEN "discarded" ELSE timeout
    /\ ticks' = 0
    /\ Goto("button", "reset_color")
    /\ UNCHANGED <<g_sempahore_state, g_semaphore_led_color,
                   blinkLocals, button_a, outputs, held, verdict, fresh, toggled>>

\* line 128: g_semaphore_counter = SEMAPHORE_GREEN_DURATION_SEC
ButtonResetCounter ==
    /\ Running("button") /\ pc["button"] = "reset_counter"
    /\ g_semaphore_counter' = SEMAPHORE_GREEN_DURATION_SEC
    /\ timeout' = IF timeout = "expired" THEN "discarded" ELSE timeout
    /\ ticks' = 0
    /\ Goto("button", "reset_color")
    /\ UNCHANGED <<g_sempahore_state, g_semaphore_led_color, g_semaphore_mode,
                   blinkLocals, button_a, outputs, held, verdict, fresh, toggled>>

\* line 129: g_semaphore_led_color = SEMAPHORE_LED_COLOR_GREEN
ButtonResetColor ==
    /\ Running("button") /\ pc["button"] = "reset_color"
    /\ g_semaphore_led_color' = SEMAPHORE_LED_COLOR_GREEN
    /\ Goto("button", "reset_state")
    /\ UNCHANGED <<g_semaphore_counter, g_sempahore_state, g_semaphore_mode,
                   blinkLocals, button_a, outputs, observers>>

\* Mutant of ButtonResetState: the reset leaves the phase as it was.
ButtonResetState_Missing ==
    /\ Running("button") /\ pc["button"] = "reset_state"
    /\ Goto("button", "set_day")
    /\ UNCHANGED <<shared, blinkLocals, button_a, outputs, observers>>

\* line 130: g_sempahore_state = SEMAPHORE_GREEN_STATE
ButtonResetState ==
    /\ Running("button") /\ pc["button"] = "reset_state"
    /\ g_sempahore_state' = SEMAPHORE_GREEN_STATE
    /\ held' = HeldAfter(g_semaphore_mode, g_sempahore_state')
    /\ Goto("button", "set_day")
    /\ UNCHANGED <<g_semaphore_counter, g_semaphore_led_color, g_semaphore_mode,
                   blinkLocals, button_a, outputs, verdict, fresh, timeout, ticks, toggled>>

\* line 131: g_semaphore_mode = SEMAPHORE_DAILY_MODE
ButtonSetDay ==
    /\ Running("button") /\ pc["button"] = "set_day"
    /\ g_semaphore_mode' = SEMAPHORE_DAILY_MODE
    /\ held' = HeldAfter(g_semaphore_mode', g_sempahore_state)
    /\ fresh' = TRUE
    /\ toggled' = TRUE
    /\ Goto("button", "delay")
    /\ UNCHANGED <<g_semaphore_counter, g_sempahore_state, g_semaphore_led_color,
                   blinkLocals, button_a, outputs, verdict, timeout, ticks>>

\* Mutant of ButtonSetNight: entering Night also clears the counter.
ButtonSetNight_ClearsCounter ==
    /\ Running("button") /\ pc["button"] = "set_night"
    /\ g_semaphore_mode' = SEMAPHORE_NIGHT_MODE
    /\ g_semaphore_counter' = 0
    /\ held' = HeldAfter(g_semaphore_mode', g_sempahore_state)
    /\ toggled' = TRUE
    /\ Goto("button", "delay")
    /\ UNCHANGED <<g_sempahore_state, g_semaphore_led_color,
                   blinkLocals, button_a, outputs, verdict, fresh, timeout, ticks>>

\* line 133: else g_semaphore_mode = SEMAPHORE_NIGHT_MODE
ButtonSetNight ==
    /\ Running("button") /\ pc["button"] = "set_night"
    /\ g_semaphore_mode' = SEMAPHORE_NIGHT_MODE
    /\ held' = HeldAfter(g_semaphore_mode', g_sempahore_state)
    /\ toggled' = TRUE
    /\ Goto("button", "delay")
    /\ UNCHANGED <<g_semaphore_counter, g_sempahore_state, g_semaphore_led_color,
                   blinkLocals, button_a, outputs, verdict, fresh, timeout, ticks>>

ButtonStep ==
    \/ ButtonPoll \/ ButtonTestMode \/ ButtonResetCounter \/ ButtonResetColor
    \/ ButtonResetState \/ ButtonSetDay \/ ButtonSetNight

(* ---------------- the presenters' common shape ------------------------- *)
\* The read of g_semaphore_mode that opens an iteration of presenter t:
\* from here on the observer collects the values the record holds.
OpenReading(t, day) ==
    held' = [held EXCEPT ![t] = IF day
                                THEN {<<g_semaphore_mode, g_sempahore_state>>}
                                ELSE {}]

\* Presenter t decides: the observer files its verdict and stops collecting.
Decide(t, v) ==
    /\ verdict' = [verdict EXCEPT ![t] = v]
    /\ held' = [held EXCEPT ![t] = {}]

(* ---------------- vLedColorTask ---------------------------------------- *)
\* line 208, and line 228 in Night mode
LedTestMode ==
    /\ Running("led") /\ pc["led"] = "test_mode"
    /\ IF g_semaphore_mode = SEMAPHORE_DAILY_MODE
       THEN /\ OpenReading("led", TRUE)
            /\ Goto("led", "test_green")
            /\ UNCHANGED <<lamp, verdict>>
       ELSE /\ lamp' = RgbTurnOnByColor(lamp, RGB_COLOR_YELLOW)
            /\ Decide("led", JudgeNight("led"))
            /\ Goto("led", "delay")
    /\ UNCHANGED <<shared, blinkLocals, button_a, oled_line, oled_shown, tone,
                   fresh, timeout, ticks, toggled>>

\* The test of the phase at label l against phase s; a match lights colour c.
LedTest(l, s, c, next) ==
    /\ Running("led") /\ pc["led"] = l
    /\ IF g_sempahore_state = s
       THEN /\ lamp' = RgbTurnOnByColor(lamp, c)
            /\ Decide("led", Judge("led", SEMAPHORE_DAILY_MODE, s))
            /\ Goto("led", "delay")
       ELSE /\ Goto("led", next)
            /\ IF next = "delay"
               THEN Decide("led", "unrendered")
               ELSE UNCHANGED <<held, verdict>>
            /\ UNCHANGED lamp
    /\ UNCHANGED <<shared, blinkLocals, button_a, oled_line, oled_shown, tone,
                   fresh, timeout, ticks, toggled>>

\* lines 210-214
LedTestGreen == LedTest("test_green", SEMAPHORE_GREEN_STATE, RGB_COLOR_GREEN, "test_yellow")

\* lines 215-219
LedTestYellow == LedTest("test_yellow", SEMAPHORE_YELLOW_STATE, RGB_COLOR_YELLOW, "test_red")

\* lines 220-224; no else: when the test fails the lamp is not set
LedTestRed == LedTest("test_red", SEMAPHORE_RED_STATE, RGB_COLOR_RED, "delay")

LedStep == LedTestMode \/ LedTestGreen \/ LedTestYellow \/ LedTestRed


(* ---------------- vBuzzerTask ------------------------------------------ *)
\* Mutant of BuzzerTestMode: the mode test of line 171 is missing, the
\* buzzer beeps by phase in both modes.
BuzzerTestMode_NoModeTest ==
    /\ Running("buzzer") /\ pc["buzzer"] = "test_mode"
    /\ OpenReading("buzzer", TRUE)
    /\ Goto("buzzer", "test_green")
    /\ UNCHANGED <<tone, verdict>>
    /\ UNCHANGED <<shared, blinkLocals, button_a, lamp, oled_line, oled_shown,
                   fresh, timeout, ticks, toggled>>

\* line 171, and lines 193-194 in Night mode
BuzzerTestMode ==
    /\ Running("buzzer") /\ pc["buzzer"] = "test_mode"
    /\ IF g_semaphore_mode = SEMAPHORE_DAILY_MODE
       THEN /\ OpenReading("buzzer", TRUE)
            /\ Goto("buzzer", "test_green")
            /\ UNCHANGED <<tone, verdict>>
       ELSE /\ tone' = <<500, 2000>>
            /\ Decide("buzzer", JudgeNight("buzzer"))
            /\ Goto("buzzer", "delay")
    /\ UNCHANGED <<shared, blinkLocals, button_a, lamp, oled_line, oled_shown,
                   fresh, timeout, ticks, toggled>>

\* The test of the phase at label l against phase s; a match beeps for ms
\* milliseconds and then waits for wait milliseconds (0: no vTaskDelay at all).
BuzzerTest(l, s, ms, wait, next) ==
    /\ Running("buzzer") /\ pc["buzzer"] = l
    /\ IF g_sempahore_state = s
       THEN /\ tone' = <<ms, wait>>
            /\ Decide("buzzer", Judge("buzzer", SEMAPHORE_DAILY_MODE, s))
            /\ Goto("buzzer", IF wait = 0 THEN "test_mode" ELSE "delay")
       ELSE /\ Goto("buzzer", next)
            /\ IF next = "test_mode"
               THEN Decide("buzzer", "unrendered")
               ELSE UNCHANGED <<held, verdict>>
            /\ UNCHANGED tone
    /\ UNCHANGED <<shared, blinkLocals, button_a, lamp, oled_line, oled_shown,
                   fresh, timeout, ticks, toggled>>

\* Mutant of BuzzerTestGreen: the test of line 173 assigns ("=" for "==").
BuzzerTestGreen_Assigns ==
    /\ Running("buzzer") /\ pc["buzzer"] = "test_green"
    /\ g_sempahore_state' = SEMAPHORE_GREEN_STATE
    /\ tone' = <<251, 749>>
    /\ Decide("buzzer", "consistent")
    /\ Goto("buzzer", "delay")
    /\ UNCHANGED <<g_semaphore_counter, g_semaphore_led_color, g_semaphore_mode,
                   blinkLocals, button_a, lamp, oled_line, oled_shown,
                   fresh, timeout, ticks, toggled>>

\* lines 173-178
BuzzerTestGreen == BuzzerTest("test_green", SEMAPHORE_GREEN_STATE, 251, 749, "test_yellow")

\* lines 179-183: the beep is followed by no delay
BuzzerTestYellow == BuzzerTest("test_yellow", SEMAPHORE_YELLOW_STATE, 251, 0, "test_red")

\* lines 184-189; no else: when the test fails the loop starts over at once
BuzzerTestRed == BuzzerTest("test_red", SEMAPHORE_RED_STATE, 500, 1500, "test_mode")

BuzzerStep == BuzzerTestMode \/ BuzzerTestGreen \/ BuzzerTestYellow \/ BuzzerTestRed

(* ---------------- vDisplayTask ----------------------------------------- *)
\* line 148: oledgfx_clear_line(ssd, 40) clears the pixels of the cue line
DisplayClear ==
    /\ Running("display") /\ pc["display"] = "clear"
    /\ oled_line' = ""
    /\ Goto("display", "test_mode")
    /\ UNCHANGED <<shared, blinkLocals, button_a, lamp, oled_shown, tone, observers>>

\* line 149: in Night mode nothing is drawn
DisplayTestMode ==
    /\ Running("display") /\ pc["display"] = "test_mode"
    /\ IF g_semaphore_mode = SEMAPHORE_DAILY_MODE
       THEN /\ OpenReading("display", TRUE)
            /\ Goto("display", "test_green")
            /\ UNCHANGED verdict
       ELSE /\ Decide("display", JudgeNight("display"))
            /\ Goto("display", "render")
    /\ UNCHANGED <<shared, blinkLocals, button_a, outputs, fresh, timeout, ticks, toggled>>

\* The test of the phase at label l against phase s; a match draws cue.
DisplayTest(l, s, cue, next) ==
    /\ Running("display") /\ pc["display"] = l
    /\ IF g_sempahore_state = s
       THEN /\ oled_line' = cue
            /\ Decide("display", Judge("display", SEMAPHORE_DAILY_MODE, s))
            /\ Goto("display", "render")
       ELSE /\ Goto("display", next)
            /\ IF next = "render"
               THEN Decide("display", "unrendered")
               ELSE UNCHANGED <<held, verdict>>
            /\ UNCHANGED oled_line
    /\ UNCHANGED <<shared, blinkLocals, button_a, lamp, oled_shown, tone,
                   fresh, timeout, ticks, toggled>>

\* lines 151-152
DisplayTestGreen == DisplayTest("test_green", SEMAPHORE_GREEN_STATE, "Siga", "test_yellow")

\* lines 153-154
DisplayTestYellow == DisplayTest("test_yellow", SEMAPHORE_YELLOW_STATE, "Atencao", "test_red")

\* lines 155-156; no else: when the test fails no cue is drawn
DisplayTestRed == DisplayTest("test_red", SEMAPHORE_RED_STATE, "Pare", "render")

\* line 159: oledgfx_render sends the buffer to the panel
DisplayRender ==
    /\ Running("display") /\ pc["display"] = "render"
    /\ oled_shown' = oled_line
    /\ Goto("display", "delay")
    /\ UNCHANGED <<shared, blinkLocals, button_a, lamp, oled_line, tone, observers>>

DisplayStep ==
    \/ DisplayClear \/ DisplayTestMode \/ DisplayTestGreen \/ DisplayTestYellow
    \/ DisplayTestRed \/ DisplayRender

(* ---------------- a presenter's iteration as one step ------------------ *)
\* The presenters write no shared variable: all they do to the other tasks
\* is to keep the processor from the tasks below them, from the end of their
\* delay to their next vTaskDelay.  Where a specification does not look at a
\* presenter's device, the iteration of that presenter is a single step.

\* vLedColorTask, lines 208-230: every path ends in the vTaskDelay of line 230.
LedIteration ==
    /\ Running("led") /\ pc["led"] = "test_mode"
    /\ Goto("led", "delay")
    /\ UNCHANGED <<shared, blinkLocals, button_a, outputs, observers>>

\* vBuzzerTask, lines 171-195: the Green, Red and Night branches end in a
\* vTaskDelay; the Yellow branch and the fall-through loop without one.
BuzzerIteration ==
    /\ Running("buzzer") /\ pc["buzzer"] = "test_mode"
    /\ \/ g_semaphore_mode # SEMAPHORE_DAILY_MODE
       \/ g_sempahore_state \in {SEMAPHORE_GREEN_STATE, SEMAPHORE_RED_STATE}
    /\ Goto("buzzer", "delay")
    /\ UNCHANGED <<shared, blinkLocals, button_a, outputs, observers>>

\* vDisplayTask, lines 148-160: every path ends in the vTaskDelay of line 160.
DisplayIteration ==
    /\ Running("display") /\ pc["display"] = "clear"
    /\ Goto("display", "delay")
    /\ UNCHANGED <<shared, blinkLocals, button_a, outputs, observers>>

(* ---------------- the system ------------------------------------------- *)
\* The tick interrupt ends the delay of some task.
Tick == \E t \in Tasks : Wake(t)

\* The two writers of the shared record, the button input and the tick.
Writers ==
    \/ Tick
    \/ PressA \/ ReleaseA
    \/ BlinkTestMode \/ BlinkLoadCounter \/ BlinkStoreCounter
    \/ BlinkDrawDay \/ BlinkDrawNight \/ BlinkCallUpdate
    \/ UpdateTestTimeout \/ UpdateSetCounter \/ UpdateSetState \/ UpdateSetColor
    \/ ButtonPoll \/ ButtonTestMode \/ ButtonResetCounter \/ ButtonResetColor
    \/ ButtonResetState \/ ButtonSetDay \/ ButtonSetNight

\* The system as the writers see it.
Next == Writers \/ LedIteration \/ BuzzerIteration \/ DisplayIteration

Spec == Init /\ [][Next]_vars

\* The system with vLedColorTask read by read.
NextLed ==
    \/ Writers
    \/ LedTestMode \/ LedTestGreen \/ LedTestYellow \/ LedTestRed
    \/ BuzzerIteration \/ DisplayIteration

SpecLed == Init /\ [][NextLed]_vars

\* The system with vBuzzerTask read by read.
NextBuzzer ==
    \/ Writers
    \/ BuzzerTestMode \/ BuzzerTestGreen \/ BuzzerTestYellow \/ BuzzerTestRed
    \/ LedIteration \/ DisplayIteration

SpecBuzzer == Init /\ [][NextBuzzer]_vars

\* The system with vDisplayTask read by read.
NextDisplay ==
    \/ Writers
    \/ DisplayClear \/ DisplayTestMode \/ DisplayTestGreen \/ DisplayTestYellow
    \/ DisplayTestRed \/ DisplayRender
    \/ LedIteration \/ BuzzerIteration

SpecDisplay == Init /\ [][NextDisplay]_vars


\* The system while nobody touches button A: the input stays high, so the
\* button task only polls (line 124) and sleeps (line 135).
NextQuiet ==
    \/ Tick
    \/ BlinkTestMode \/ BlinkLoadCounter \/ BlinkStoreCounter \/ BlinkDrawDay
    \/ BlinkCallUpdate
    \/ UpdateTestTimeout \/ UpdateSetCounter \/ UpdateSetState \/ UpdateSetColor
    \/ ButtonPoll
    \/ LedIteration \/ BuzzerIteration \/ DisplayIteration

SpecQuiet == Init /\ [][NextQuiet]_vars

\* The system during one physical press of button A: the input goes low
\* once and is not released, so every poll of line 124 after the press
\* finds it low.
NextHeld ==
    \/ Tick
    \/ PressA
    \/ BlinkTestMode \/ BlinkLoadCounter \/ BlinkStoreCounter
    \/ BlinkDrawDay \/ BlinkDrawNight \/ BlinkCallUpdate
    \/ UpdateTestTimeout \/ UpdateSetCounter \/ UpdateSetState \/ UpdateSetColor
    \/ ButtonPoll \/ ButtonTestMode \/ ButtonResetCounter \/ ButtonResetColor
    \/ ButtonResetState \/ ButtonSetDay \/ ButtonSetNight
    \/ LedIteration \/ BuzzerIteration \/ DisplayIteration

SpecHeld == Init /\ [][NextHeld]_vars


\* The system with the scheduling the countdown task can rely on: it has the
\* highest priority, so it runs whenever it is ready, and the tick interrupt
\* ends its one-second delay.
SpecFair ==
    /\ Init /\ [][Next]_vars
    /\ WF_vars(BlinkStep)
    /\ WF_vars(Wake("blink"))

(* ---------------- button B and gpio_irq_handler ------------------------- *)
\* pb_set_irq_callback and pb_enable_irq(BUTTON_B), lines 276-277: the
\* interrupt of button B is armed before the scheduler starts and nothing
\* disarms it while the firmware runs.
ButtonBIrqEnabled == \A t \in Tasks : pc[t] # "usb_boot"

\* Mutant of GpioIrqHandler: the interrupt is served only while every task
\* sleeps.
GpioIrqHandler_Masked ==
    /\ ButtonBIrqEnabled
    /\ \A t \in Tasks : Delayed(t)
    /\ pc' = [t \in Tasks |-> "usb_boot"]
    /\ UNCHANGED <<shared, blinkLocals, button_a, outputs, observers>>

\* lines 260-263: reset_usb_boot(0, 0) leaves the firmware for the USB
\* bootloader; no task takes a step afterwards.
GpioIrqHandler ==
    /\ ButtonBIrqEnabled
    /\ pc' = [t \in Tasks |-> "usb_boot"]
    /\ UNCHANGED <<shared, blinkLocals, button_a, outputs, observers>>

\* The system with button B: the interrupt may come in any state.
NextIrq == Next \/ GpioIrqHandler

SpecIrq == Init /\ [][NextIrq]_vars

(* ---------------- the lamp driver on its own --------------------------- *)
\* Everything but the lamp.
notLamp == <<shared, pc, blinkLocals, button_a, oled_line, oled_shown, tone, observers>>

\* A client calls rgb_turn_on_red, rgb_turn_on_green or rgb_turn_on_blue
\* with some intensity.
CallRgbTurnOnRed ==
    /\ \E i \in 0..MaxLevel : lamp' = RgbTurnOnRed(lamp, i)
    /\ UNCHANGED notLamp

CallRgbTurnOnGreen ==
    /\ \E i \in 0..MaxLevel : lamp' = RgbTurnOnGreen(lamp, i)
    /\ UNCHANGED notLamp

CallRgbTurnOnBlue ==
    /\ \E i \in 0..MaxLevel : lamp' = RgbTurnOnBlue(lamp, i)
    /\ UNCHANGED notLamp

\* A client calls rgb_turn_on_by_color with some colour code.
CallRgbTurnOnByColor ==
    /\ \E c \in 0..MaxColorCode : lamp' = RgbTurnOnByColor(lamp, c)
    /\ UNCHANGED notLamp

NextRgb ==
    \/ CallRgbTurnOnRed \/ CallRgbTurnOnGreen \/ CallRgbTurnOnBlue
    \/ CallRgbTurnOnByColor

SpecRgb == Init /\ [][NextRgb]_vars

\* A client calls rgb_turn_on_by_gpio for pin p with intensity i.
CallRgbTurnOnByGpio(p, i) ==
    /\ lamp' = RgbTurnOnByGpio(lamp, p, i)
    /\ UNCHANGED notLamp

\* A client calls turn_off_led_by_gpio.
CallTurnOffLedByGpio ==
    /\ \E p \in 1..MaxPin : lamp' = TurnOffLedByGpio(lamp, p)
    /\ UNCHANGED notLamp

\* The lamp driver with its scaled levels.
NextPwm ==
    \/ \E p \in 1..MaxPin, i \in 0..MaxIntensity : CallRgbTurnOnByGpio(p, i)
    \/ CallTurnOffLedByGpio
    \/ CallRgbTurnOnByColor

SpecPwm == Init /\ [][NextPwm]_vars

\* Mutant of SetNight: the request flips the mode instead of installing Night.
SetNight_Flips(rec) ==
    [rec EXCEPT ![4] = IF rec[4] = SEMAPHORE_NIGHT_MODE
                       THEN SEMAPHORE_DAILY_MODE ELSE SEMAPHORE_NIGHT_MODE]

\* line 133 as a function of the record <<counter, phase, colour, mode>>:
\* the store g_semaphore_mode = SEMAPHORE_NIGHT_MODE touches the mode alone.
SetNight(rec) == [rec EXCEPT ![4] = SEMAPHORE_NIGHT_MODE]

(***************************************************************************)
(* The claims                                                              *)
(***************************************************************************)
\* duration(phase) of the specification: Green 9, Yellow 3, Red 6.
Duration(s) ==
    CASE s = SEMAPHORE_GREEN_STATE  -> 9
      [] s = SEMAPHORE_YELLOW_STATE -> 3
      [] s = SEMAPHORE_RED_STATE    -> 6
      [] OTHER                      -> 0

\* The cyclic order of the specification: Green, Yellow, Red, Green, ...
CyclicSuccessor(s) ==
    CASE s = SEMAPHORE_GREEN_STATE  -> SEMAPHORE_YELLOW_STATE
      [] s = SEMAPHORE_YELLOW_STATE -> SEMAPHORE_RED_STATE
      [] s = SEMAPHORE_RED_STATE    -> SEMAPHORE_GREEN_STATE
      [] OTHER                      -> s

\* The button task is between the first and the last write of its reset.
ButtonMidReset == pc["button"] \in {"reset_color", "reset_state", "set_day"}

\* The countdown task is between the read and the write of the decrement, or
\* between the first and the last write of a phase transition.
BlinkMidUpdate == pc["blink"] \in {"store_counter", "set_state", "set_color"}

\* C1: while the mode is Night, no step of the countdown driver (vBlinkTask
\* with its call of update_semaphore_counter) changes the phase or the
\* counter.
C1_NightFreezesCountdown ==
    [][(g_semaphore_mode = SEMAPHORE_NIGHT_MODE /\ BlinkStep)
         => UNCHANGED <<g_sempahore_state, g_semaphore_counter>>]_vars

\* C2: in every reachable state the counter is within 0..duration(phase).
C2_CounterWithinDuration ==
    g_semaphore_counter \in 0..Duration(g_sempahore_state)

\* C3: every rendering decision of a presenter rests on one (mode, phase)
\* that the shared record held at some instant; no presenter acts on a mix
\* of two states or falls through its three phase tests without rendering.
C3_PresentersActOnOneState ==
    \A t \in Presenters : verdict[t] \in {"none", "consistent"}


\* C4: whenever the mode changes from Night to Day, the record is (Green, 9,
\* green) at that moment, and the first digit the countdown task counts
\* after the reset is 9.
C4_ResetToGreen ==
    /\ [][(g_semaphore_mode = SEMAPHORE_NIGHT_MODE
            /\ g_semaphore_mode' = SEMAPHORE_DAILY_MODE)
          => /\ g_sempahore_state' = SEMAPHORE_GREEN_STATE
             /\ g_semaphore_counter' = 9
             /\ g_semaphore_led_color' = SEMAPHORE_LED_COLOR_GREEN]_vars
    /\ [](fresh /\ pc["blink"] = "store_counter" => glyph_index = 9)

\* C4 witness: the reset has ended a Night period (the matrix still shows the
\* Night glyph) and the countdown task is counting its first Day digit.
C4_Witness ==
    /\ fresh /\ g_semaphore_mode = SEMAPHORE_DAILY_MODE
    /\ pc["blink"] = "store_counter"
    /\ matrix = <<0, WS2812B_COLOR_YELLOW>>

\* C5: the writes of the countdown driver and those of the button task are
\* mutually exclusive critical sections: no step of one writer is taken
\* between the first and the last write of an update of the other.
C5_WritersExclude ==
    [][/\ BlinkStep => ~ButtonMidReset
       /\ ButtonStep => ~BlinkMidUpdate]_vars

\* C6: every change of the phase made by update_semaphore_counter goes to
\* the cyclic successor; the only other change of the phase is the button
\* task's reset to Green.
C6_PhaseOrder ==
    [][g_sempahore_state' # g_sempahore_state
         => \/ UpdateSetState /\ g_sempahore_state' = CyclicSuccessor(g_sempahore_state)
            \/ ButtonResetState /\ g_sempahore_state' = SEMAPHORE_GREEN_STATE]_vars

\* C6 witness: the driver has just gone from Red back to Green.
C6_Witness ==
    /\ pc["blink"] = "set_color"
    /\ current_state = SEMAPHORE_RED_STATE
    /\ g_sempahore_state = SEMAPHORE_GREEN_STATE

\* C7: the decrement is never applied to a counter that is 0, and the
\* unsigned 16-bit counter never wraps.
C7_NoUnderflow ==
    /\ g_semaphore_counter <= SEMAPHORE_GREEN_DURATION_SEC
    /\ pc["blink"] = "load_counter" => g_semaphore_counter > 0
    /\ pc["blink"] = "store_counter" => glyph_index > 0

\* C7 witness: a decrement has just taken the counter from 1 to 0.
C7_Witness ==
    /\ pc["blink"] = "draw_day"
    /\ glyph_index = 1
    /\ g_semaphore_counter = 0


\* The phase advances only on a timeout and at most once per timeout, and
\* the only other change of the phase is the button task's reset.
AdvanceOnlyOnTimeout ==
    /\ UpdateSetCounter =>
           /\ g_semaphore_counter = SEMAPHORE_DURATION_TIMEOUT
           /\ timeout = "expired"
    /\ (g_sempahore_state' # g_sempahore_state /\ ~ButtonResetState) =>
           /\ UpdateSetState
           /\ timeout = "advanced"

\* C8 as claimed: the phase advances only on a timeout, and each time the
\* counter reaches 0 exactly one advance happens before the next decrement.
C8_ExactlyOneAdvancePerTimeout ==
    [][/\ AdvanceOnlyOnTimeout
       /\ BlinkStoreCounter => timeout \in {"running", "advanced"}]_vars

\* C8 as amended: the phase advances only on a timeout and at most once per
\* timeout; before the next decrement either that one advance has happened
\* or the button task's Night-to-Day reset has reloaded the counter instead.
C8_AtMostOneAdvancePerTimeout ==
    [][/\ AdvanceOnlyOnTimeout
       /\ BlinkStoreCounter => timeout \in {"running", "advanced", "discarded"}]_vars

\* C8 witness: the counter reached 0, one advance followed, and the next
\* decrement is about to be written.
C8_Witness ==
    /\ pc["blink"] = "store_counter"
    /\ timeout = "advanced"
    /\ g_semaphore_mode = SEMAPHORE_DAILY_MODE

\* C9: with no button event, from (Day, Green, 9) the driver decrements
\* exactly duration(phase) times in each phase, the counter reaching 0 with
\* the phase unchanged, and then advances to the next phase with its full
\* duration: (Green, 9), (Yellow, 3), (Red, 6), (Green, 9).
C9_DayCycle ==
    /\ [](g_semaphore_mode = SEMAPHORE_DAILY_MODE)
    /\ [](pc["blink"] # "set_state"
            => ticks + g_semaphore_counter = Duration(g_sempahore_state))
    /\ [][/\ UpdateSetCounter =>
               /\ ticks = Duration(g_sempahore_state)
               /\ g_semaphore_counter = 0
          /\ UpdateSetState =>
               /\ g_sempahore_state' = CyclicSuccessor(g_sempahore_state)
               /\ g_semaphore_counter = Duration(g_sempahore_state')]_vars

\* C9 witness: the six decrements of Red are done and the driver is back at
\* (Green, 9).
C9_Witness ==
    /\ pc["blink"] = "set_color"
    /\ current_state = SEMAPHORE_RED_STATE
    /\ g_sempahore_state = SEMAPHORE_GREEN_STATE
    /\ g_semaphore_counter = 9

\* C10: the Day-to-Night branch writes the mode alone; (Red, 4) stays
\* (Red, 4) in Night until the button task's reset, which gives
\* (Day, Green, 9).
C10_NightKeepsPhase ==
    [][/\ (g_semaphore_mode = SEMAPHORE_DAILY_MODE
            /\ g_semaphore_mode' = SEMAPHORE_NIGHT_MODE)
          => UNCHANGED <<g_sempahore_state, g_semaphore_counter, g_semaphore_led_color>>
       /\ (g_semaphore_mode = SEMAPHORE_NIGHT_MODE
            /\ g_sempahore_state = SEMAPHORE_RED_STATE /\ g_semaphore_counter = 4
            /\ ~ButtonResetCounter)
          => /\ g_sempahore_state' = SEMAPHORE_RED_STATE
             /\ g_semaphore_counter' = 4
             /\ g_semaphore_mode' = SEMAPHORE_NIGHT_MODE
       /\ ButtonSetDay
          => /\ g_sempahore_state' = SEMAPHORE_GREEN_STATE
             /\ g_semaphore_counter' = 9]_vars

\* C10 witness: Night was entered from (Day, Red, 4) and the countdown task
\* has run since.
C10_Witness ==
    /\ g_semaphore_mode = SEMAPHORE_NIGHT_MODE
    /\ g_sempahore_state = SEMAPHORE_RED_STATE
    /\ g_semaphore_counter = 4
    /\ g_semaphore_led_color = SEMAPHORE_LED_COLOR_RED
    /\ matrix = <<0, WS2812B_COLOR_YELLOW>>
    /\ pc["button"] = "delay"

\* C11: every button event vPushButtonTask handles flips the mode: the write
\* of line 131 finds Night and leaves Day, the write of line 133 finds Day
\* and leaves Night; the mode changes in no other step, so its values
\* alternate Day, Night, Day, ... from the initial Day.
C11_ButtonFlipsMode ==
    /\ [](ButtonMidReset \/ pc["button"] = "reset_counter"
            => g_semaphore_mode = SEMAPHORE_NIGHT_MODE)
    /\ [](pc["button"] = "set_night" => g_semaphore_mode = SEMAPHORE_DAILY_MODE)
    /\ [][/\ ButtonSetDay => /\ g_semaphore_mode = SEMAPHORE_NIGHT_MODE
                             /\ g_semaphore_mode' = SEMAPHORE_DAILY_MODE
          /\ ButtonSetNight => /\ g_semaphore_mode = SEMAPHORE_DAILY_MODE
                               /\ g_semaphore_mode' = SEMAPHORE_NIGHT_MODE
          /\ g_semaphore_mode' # g_semaphore_mode
               => ButtonSetDay \/ ButtonSetNight]_vars

\* C11 witness: the mode has gone Day, Night, Day, and the button task is
\* about to handle a third event, which finds Day again.
C11_Witness ==
    /\ fresh /\ g_semaphore_mode = SEMAPHORE_DAILY_MODE
    /\ pc["button"] = "set_night"

\* C12: one physical press of button A, however many 100 ms polls it
\* lasts, toggles the mode exactly once.  With the input pressed once and
\* not released (SpecHeld) the one toggle is the change from the initial
\* Day to Night, so the mode never leaves Night again.
C12_OneTogglePerPress ==
    [][g_semaphore_mode = SEMAPHORE_NIGHT_MODE
         => g_semaphore_mode' = SEMAPHORE_NIGHT_MODE]_vars

\* colour(phase) of the specification: Green green, Yellow yellow, Red red.
ColourOf(s) ==
    CASE s = SEMAPHORE_GREEN_STATE  -> SEMAPHORE_LED_COLOR_GREEN
      [] s = SEMAPHORE_YELLOW_STATE -> SEMAPHORE_LED_COLOR_YELLOW
      [] s = SEMAPHORE_RED_STATE    -> SEMAPHORE_LED_COLOR_RED
      [] OTHER                      -> -1

\* The three phase fields of the record belong to one phase.
RecordOfOnePhase ==
    /\ g_semaphore_led_color = ColourOf(g_sempahore_state)
    /\ g_semaphore_counter \in 0..Duration(g_sempahore_state)

\* A step in which a task runs on the record while it is not itself in the
\* middle of the writes of a transition or of the reset.
StepOfAnObserver ==
    \/ BlinkStep /\ pc["blink"] \notin {"set_state", "set_color"}
    \/ ButtonStep /\ ~ButtonMidReset
    \/ LedIteration \/ BuzzerIteration \/ DisplayIteration

\* C13: whenever a task other than the writer runs, the colour is the
\* colour of the phase and the counter belongs to that phase: nobody can
\* see a transition or a reset half done.
C13_NoTornRecord ==
    [][StepOfAnObserver => RecordOfOnePhase]_vars

\* C14: no step of vLedColorTask, vDisplayTask or vBuzzerTask changes
\* g_sempahore_state, g_semaphore_counter, g_semaphore_led_color or
\* g_semaphore_mode; phase, counter and colour change only in steps of
\* vBlinkTask (with update_semaphore_counter) and of vPushButtonTask, the
\* mode only in steps of vPushButtonTask.
C14_PresentersWriteNothing ==
    [][/\ (\/ LedStep \/ BuzzerStep \/ DisplayStep
           \/ LedIteration \/ BuzzerIteration \/ DisplayIteration)
          => UNCHANGED shared
       /\ <<g_sempahore_state, g_semaphore_counter, g_semaphore_led_color>>'
             # <<g_sempahore_state, g_semaphore_counter, g_semaphore_led_color>>
          => BlinkStep \/ ButtonStep
       /\ g_semaphore_mode' # g_semaphore_mode => ButtonStep]_vars

\* C14 witness: vBuzzerTask has found Green and beeped, and the record is
\* as the countdown task left it after the first digit.
C14_Witness ==
    /\ tone = <<251, 749>> /\ pc["buzzer"] = "delay"
    /\ verdict["buzzer"] = "consistent"
    /\ shared = <<8, SEMAPHORE_GREEN_STATE, SEMAPHORE_LED_COLOR_GREEN,
                  SEMAPHORE_DAILY_MODE>>

\* The channel levels of the lamp colour the specification gives to
\* (mode, phase): Day green, yellow, red by phase; Night yellow.
LampFor(m, s) ==
    RgbTurnOnByColor(<<0, 0, 0>>,
        IF m = SEMAPHORE_NIGHT_MODE THEN RGB_COLOR_YELLOW
        ELSE CASE s = SEMAPHORE_GREEN_STATE  -> RGB_COLOR_GREEN
               [] s = SEMAPHORE_YELLOW_STATE -> RGB_COLOR_YELLOW
               [] s = SEMAPHORE_RED_STATE    -> RGB_COLOR_RED
               [] OTHER                      -> -1)

\* C15: every iteration of vLedColorTask leaves the lamp at the colour of
\* the (mode, phase) the record holds at the read that ends the iteration:
\* exactly one colour is selected, whatever the mode and the phase.
C15_LampShowsPhase ==
    [][LedStep /\ pc'["led"] = "delay"
         => lamp' = LampFor(g_semaphore_mode, g_sempahore_state)]_vars

\* The cue the specification gives to (mode, phase); none in Night.
CueFor(m, s) ==
    IF m = SEMAPHORE_NIGHT_MODE THEN ""
    ELSE CASE s = SEMAPHORE_GREEN_STATE  -> "Siga"
           [] s = SEMAPHORE_YELLOW_STATE -> "Atencao"
           [] s = SEMAPHORE_RED_STATE    -> "Pare"
           [] OTHER                      -> "?"

\* C16: every iteration of vDisplayTask, having cleared the cue line, goes
\* to oledgfx_render with the cue of the (mode, phase) the record holds at
\* the read that decides: "Siga", "Atencao" or "Pare" in Day, an empty line
\* in Night.
C16_CueShowsPhase ==
    [][DisplayStep /\ pc'["display"] = "render"
         => oled_line' = CueFor(g_semaphore_mode, g_sempahore_state)]_vars

\* C17: in Night mode what each task renders depends on the mode alone,
\* whatever phase, counter and colour the record holds: vBlinkTask ends its
\* iteration with glyph 0 in yellow on the matrix, vLedColorTask with the
\* yellow lamp, vBuzzerTask with one 500 ms tone and a 2000 ms wait, and
\* vDisplayTask renders an empty cue line.
C17_NightOutputsFixed ==
    [][g_semaphore_mode = SEMAPHORE_NIGHT_MODE
         => /\ BlinkStep /\ pc'["blink"] = "delay"
                 => matrix' = <<0, WS2812B_COLOR_YELLOW>>
            /\ LedStep => /\ pc'["led"] = "delay"
                          /\ lamp' = RgbTurnOnByColor(lamp, RGB_COLOR_YELLOW)
            /\ BuzzerStep => /\ pc'["buzzer"] = "delay"
                             /\ tone' = <<500, 2000>>
            /\ DisplayStep /\ pc["display"] # "clear"
                 => /\ oled_line' = ""
                    /\ pc["display"] = "render" => oled_shown' = ""]_vars

\* C17 witness: Night with the record at phase Red; the matrix and the
\* buzzer have rendered their Night outputs.
C17_Witness ==
    /\ g_semaphore_mode = SEMAPHORE_NIGHT_MODE
    /\ g_sempahore_state = SEMAPHORE_RED_STATE
    /\ matrix = <<0, WS2812B_COLOR_YELLOW>>
    /\ tone = <<500, 2000>> /\ pc["buzzer"] = "delay"

\* What each task may leave behind at the end of an iteration in mode m:
\* the Night output of the task, or one of its Day outputs.
MatrixIn(m) ==
    IF m = SEMAPHORE_NIGHT_MODE THEN {<<0, WS2812B_COLOR_YELLOW>>}
    ELSE {<<Duration(s) - k, ColourOf(s)>> : s \in Phases, k \in 0..8}
LampsIn(m) == {LampFor(m, s) : s \in Phases}
CuesIn(m) == {CueFor(m, s) : s \in Phases}
TonesIn(m) ==
    IF m = SEMAPHORE_NIGHT_MODE THEN {<<500, 2000>>}
    ELSE {<<251, 749>>, <<251, 0>>, <<500, 1500>>}

\* C18: once vPushButtonTask has written g_semaphore_mode, every iteration
\* of vBlinkTask, vLedColorTask, vBuzzerTask and vDisplayTask ends with a
\* rendering of the mode the record holds, and the write itself moves no
\* other task: nobody is paused, restarted or signalled.
C18_ToggleSeenAtNextRead ==
    [][/\ ButtonSetDay \/ ButtonSetNight
          => \A t \in Tasks \ {"button"} : pc'[t] = pc[t]
       /\ toggled
          => /\ BlinkStep /\ pc'["blink"] = "delay"
                  => matrix' \in MatrixIn(g_semaphore_mode)
             /\ LedStep /\ pc'["led"] = "delay"
                  => lamp' \in LampsIn(g_semaphore_mode)
             /\ BuzzerStep /\ pc'["buzzer"] \in {"delay", "test_mode"}
                  => tone' \in TonesIn(g_semaphore_mode)
             /\ DisplayStep /\ pc'["display"] = "render"
                  => oled_line' \in CuesIn(g_semaphore_mode)]_vars

\* C19: the day cycle has no terminal state.  In every reachable state the
\* countdown task can take a further step, either at once or when its delay
\* ends; and in every fairly scheduled run in which the mode stays Day from
\* some point on, each of Green, Yellow and Red occurs infinitely often.
C19_DayCycleNeverEnds ==
    /\ [](ENABLED (BlinkStep \/ Wake("blink")))
    /\ <>[](g_semaphore_mode = SEMAPHORE_DAILY_MODE)
         => \A s \in Phases : []<>(g_sempahore_state = s)

\* C19 witness: the mode has been toggled and is Day again, and the day
\* cycle has gone round to install Green after Red.
C19_Witness ==
    /\ toggled /\ g_semaphore_mode = SEMAPHORE_DAILY_MODE
    /\ pc["blink"] = "set_color"
    /\ current_state = SEMAPHORE_RED_STATE
    /\ g_sempahore_state = SEMAPHORE_GREEN_STATE

\* C20: at boot, before any task has run, the record is (Green, 9, green,
\* Day), and the first thing vBlinkTask draws on the matrix is the digit 9
\* in green.
C20_BootState ==
    /\ [](matrix = <<-1, -1>> /\ pc["blink"] = "test_mode"
            => /\ g_sempahore_state = SEMAPHORE_GREEN_STATE
               /\ g_semaphore_counter = 9
               /\ g_semaphore_led_color = SEMAPHORE_LED_COLOR_GREEN
               /\ g_semaphore_mode = SEMAPHORE_DAILY_MODE
               /\ \A t \in Tasks : pc[t] # "delay")
    /\ [][matrix = <<-1, -1>> /\ matrix' # matrix
          => matrix' = <<9, SEMAPHORE_LED_COLOR_GREEN>>]_vars

\* C20 witness: vBlinkTask has drawn its first digit and sleeps; the other
\* tasks stand at the start of their loops and the mode has not been written.
C20_Witness ==
    /\ matrix = <<9, SEMAPHORE_LED_COLOR_GREEN>>
    /\ g_semaphore_counter = 8 /\ ~toggled
    /\ pc["blink"] = "delay"
    /\ pc["led"] = "test_mode" /\ pc["buzzer"] = "test_mode"
    /\ pc["display"] = "clear" /\ pc["button"] = "poll"

InUpdate == pc["blink"] \in {"test_timeout", "set_counter", "set_state", "set_color"}

\* C22: g_sempahore_state is always one of the three phase codes, so the
\* switch of update_semaphore_counter always has a matching case: a call
\* that finds the counter at 0 returns with the counter at the (positive)
\* duration of the phase it installed, and no call advances the phase again
\* before the counter has been counted down, so there is at most one
\* transition per period of vBlinkTask and no phase of length zero.
C22_SwitchAlwaysMatches ==
    /\ [](g_sempahore_state \in Phases)
    /\ [](InUpdate => HasCase(current_state))
    /\ [](pc["blink"] \in {"set_state", "set_color"} => g_semaphore_counter > 0)
    /\ [][/\ UpdateTestTimeout /\ g_semaphore_counter = 0
               => pc'["blink"] = "set_counter"
          /\ UpdateSetCounter => timeout # "advanced"
          /\ UpdateSetColor => /\ g_semaphore_counter' > 0
                               /\ g_semaphore_counter' = Duration(g_sempahore_state')]_vars

\* C22 witness: a call that found the counter at 0 in Yellow has returned
\* with (Red, 6).
C22_Witness ==
    /\ pc["blink"] = "test_mode" /\ timeout = "advanced"
    /\ current_state = SEMAPHORE_YELLOW_STATE
    /\ g_sempahore_state = SEMAPHORE_RED_STATE
    /\ g_semaphore_counter = 6

\* C23: every index vBlinkTask uses into NUMERIC_GLYPHS is within 0..9.  In
\* Day mode the digit drawn is within 1..duration(phase), never 0, and its
\* colour is the colour of the phase the record holds, wherever the button
\* task's reset is interrupted; in Night mode the index is 0.
C23_GlyphIndexInRange ==
    /\ [](pc["blink"] \in {"store_counter", "draw_day"} => glyph_index \in 1..9)
    /\ [][/\ BlinkDrawDay
               => /\ g_semaphore_mode = SEMAPHORE_DAILY_MODE
                  /\ matrix'[1] \in 1..Duration(g_sempahore_state)
                  /\ matrix'[2] = ColourOf(g_sempahore_state)
          /\ BlinkDrawNight => matrix'[1] = 0
          /\ matrix' # matrix => matrix'[1] \in 0..9]_vars

\* C23 witness: the matrix still shows the Night glyph and the countdown
\* task is about to draw the first Day digit after the reset, 9 in green.
C23_Witness ==
    /\ toggled /\ g_semaphore_mode = SEMAPHORE_DAILY_MODE
    /\ pc["blink"] = "draw_day" /\ glyph_index = 9
    /\ g_semaphore_led_color = SEMAPHORE_LED_COLOR_GREEN
    /\ matrix = <<0, WS2812B_COLOR_YELLOW>>

\* C24: while the firmware runs, gpio_irq_handler can fire in every state,
\* whichever task is running or sleeping, and its step leaves
\* g_semaphore_counter, g_sempahore_state, g_semaphore_led_color and
\* g_semaphore_mode as they are.
C24_ResetPathAlwaysOpen ==
    /\ [](pc["blink"] # "usb_boot" => ENABLED GpioIrqHandler)
    /\ [][GpioIrqHandler => UNCHANGED shared]_vars

\* C24 witness: the interrupt came in the middle of the button task's
\* reset, between lines 128 and 129; the record is left as it was.
C24_Witness ==
    /\ pc["button"] = "usb_boot"
    /\ shared = <<9, SEMAPHORE_YELLOW_STATE, SEMAPHORE_LED_COLOR_YELLOW,
                  SEMAPHORE_NIGHT_MODE>>

\* The levels (R, G, B) the specification gives to each colour code.
LevelsOf(c) ==
    CASE c = RGB_COLOR_RED    -> <<5, 0, 0>>
      [] c = RGB_COLOR_GREEN  -> <<0, 170, 0>>
      [] c = RGB_COLOR_YELLOW -> <<5, 255, 0>>
      [] OTHER                -> <<0, 0, 0>>

====
